---- MODULE Spec2Model ----
(***************************************************************************)
(* Agent Task Execution Engine: the bounded tool-calling loop of the       *)
(* AgentExecutor, the SSEManager that streams its lifecycle, and the       *)
(* queue worker that records attempts in the TaskTrackerService.           *)
(*                                                                         *)
(* Three specifications share the variables:                               *)
(*   Spec         one executeTask run (direct or streamed) with its        *)
(*                timeout race, tool dispatch and streaming connection;    *)
(*   SpecTimeout  the same run under the fairness of its timer;            *)
(*   SpecQueue    the queue endpoint, the BullMQ attempts of a job and     *)
(*                the tracker record they write.                           *)
(***************************************************************************)
EXTENDS Integers, Sequences, FiniteSets, TLC

\* ---------------------------------------------------------------- bounds
\* Longest content (number of blocks) of one model response.
MaxBlocks == 2
\* Most calls of enqueueAgentTask made with one task id.
MaxAdds == 2

\* ------------------------------------------------------ program constants
\* CLAUDE_CONFIG.MAX_ITERATIONS
MAX_ITERATIONS == 20
\* env.QUEUE_MAX_RETRIES (default)
QUEUE_MAX_RETRIES == 3

\* ------------------------------------------------------------ value sets
\* Owners (validated.userId) and task ids (randomUUID()).
UserIds == {"u1", "u2"}
TaskIds == {"t1", "t2"}
\* What randomUUID() gives the one run of executeTask.
RunIds == {"t1"}

\* Names the model may put in a tool_use block; allTools holds the first.
ToolNames == {"get_categories", "no_such_tool"}
allTools == {"get_categories"}

StopReasons == {"end_turn", "tool_use", "max_tokens", "stop_sequence"}

\* A content block of a response.  A tool_use block carries the tool
\* name; a text block has none.
TextBlock == [type |-> "text", name |-> "-"]
ToolUseBlocks == [type : {"tool_use"}, name : ToolNames]
Blocks == {TextBlock} \cup ToolUseBlocks
Contents == UNION {[1..n -> Blocks] : n \in 0..MaxBlocks}
Responses == [stop_reason : StopReasons, content : Contents]

\* block.id: ids of one response are distinct, named here by position.
BlockId(i) == i

NoResponse == [stop_reason |-> "none", content |-> <<>>]

\* ----------------------------------------------------------------- errors
\* An Error object: its class name, its AppError code ("-" for an error
\* that is not an AppError) and its message, kept as a list of fragments.
NoError == [name |-> "-", code |-> "-", message |-> <<>>]

\* new TimeoutError(`Agent execution timed out after ${timeoutMs}ms`)
TimeoutError == [name |-> "TimeoutError", code |-> "TIMEOUT_ERROR",
                 message |-> <<"Agent execution timed out">>]

\* new AgentExecutionError(message, details)
AgentExecutionError(message) ==
    [name |-> "AgentExecutionError", code |-> "AGENT_EXECUTION_ERROR",
     message |-> message]

\* Rejections of client.messages.create (classes of the SDK, none of them
\* the application's TimeoutError).
ClientErrors ==
    { [name |-> "APIError", code |-> "-", message |-> <<"api error">>],
      [name |-> "APIConnectionTimeoutError", code |-> "-",
       message |-> <<"Request timed out.">>] }

\* What a tool's execute may do once awaited.
ToolOutcomes == {"ok", "is_error", "throws"}

\* ------------------------------------------------------------- variables
VARIABLES
    \* --- controller (one request)
    cpc,             \* "idle", "running" (awaiting executeTask), "done"
    reply,           \* what POST /agent/task answered: res.status().json()
    \* --- one executeTask run
    epc,             \* position of executeTask: "idle", "racing", "settled"
    input,           \* AgentTaskInput.userId of the run ("-" before it)
    taskId,          \* const taskId = randomUUID()
    context,         \* the AgentContext built for the run
    outcome,         \* how executeTask settled
    timerFired,      \* the setTimeout of executeWithTimeout has fired
    \* --- executeAgentLoop / executeTools
    lpc,             \* "idle", "awaitClient", "awaitTool", "toolsDone",
                     \* "returned", "threw"
    iteration,       \* let iteration
    response,        \* the response of the current iteration
    blockIdx,        \* index of the block whose execute is awaited
    toolResults,     \* toolResults of the current executeTools call
    toolLog,         \* what the tools saw in that call: id, context, outcome
    messagesLen,     \* messages.length
    messages,        \* the turns of messages: role and what the content is
    messagesNotFound, \* messages holds a tool_result "Tool ... not found"
    loopErr,         \* the error executeAgentLoop threw
    completionCalls, \* calls of client.messages.create received
    toolRounds,      \* calls of executeTools
    \* --- SSEManager and the response it writes to
    sse,
    \* --- queue endpoint, BullMQ job, worker and tracker
    qpc,             \* the queue endpoint: "idle", "enqueue", "done"
    qtask,           \* the task id the queue endpoint generated
    qreply,          \* what the queue endpoint answered
    sreply,          \* what the status endpoint answered last
    tracker,         \* agent_tasks collection: taskId -> record
    job,             \* the job of each taskId
    now,             \* FirebaseFirestore.Timestamp.now()
    \* --- the executor runs one worker process starts for a job
    runs             \* one record per attempt's executeTask, in order

execVars == <<reply, cpc, epc, input, taskId, context, outcome, timerFired, lpc,
              iteration, response, blockIdx, toolResults, toolLog, messagesLen, messages, messagesNotFound,
              loopErr, completionCalls, toolRounds, sse>>
endpointVars == <<qpc, qtask, qreply, sreply>>
queueVars == <<qpc, qtask, qreply, sreply, tracker, job, now, runs>>
vars == <<reply, cpc, epc, input, taskId, context, outcome, timerFired, lpc,
          iteration, response, blockIdx, toolResults, toolLog, messagesLen, messages, messagesNotFound,
          loopErr, completionCalls, toolRounds, sse, qpc, qtask, qreply, sreply,
          tracker, job, now, runs>>

\* ------------------------------------------------------------ SSEManager
TerminalEvents == {"complete", "error"}
EventTypes == {"progress", "tool_use", "thinking", "complete", "error", "ping"}

\* The data of the complete event before one is written.
NoCompleteData == [taskId |-> "-", result |-> <<>>,
                   metadata |-> [toolsUsed |-> 0, iterations |-> 0]]

\* Nothing written yet.
NoMessage == [event |-> "-", data |-> {}]

\* The fields of the data object each send* method passes to sendEvent.
DataFields(type) ==
    CASE type = "progress" -> {"message", "progress"}
      [] type = "tool_use" -> {"toolName", "input", "output"}
      [] type = "thinking" -> {"content"}
      [] type = "complete" -> {"taskId", "result", "metadata"}
      [] type = "error" -> {"message", "code"}
      [] type = "ping" -> {"alive"}

\* SSEManager.formatSSEMessage(event, data): the event line and the
\* fields of the serialised data
formatSSEMessage(event, data) == [event |-> event, data |-> data]

\* No manager attached (direct execution).  The fields after pingActive
\* describe the express response: what has been written to it; events
\* are the kinds of the events, pings aside, written since the loop's
\* current iteration began.
NoSse == [attached |-> FALSE, isClosed |-> FALSE, pingActive |-> FALSE,
          remoteGone |-> FALSE, ended |-> FALSE, terminals |-> 0,
          lastEvent |-> "-", afterTerminal |-> FALSE,
          whileClosed |-> FALSE, errorCode |-> "-", errorMessage |-> <<>>,
          completeData |-> NoCompleteData, lastMessage |-> NoMessage,
          events |-> <<>>]

\* this.response.write(message): the event reaches the wire.
ResponseWrite(s, type) ==
    [s EXCEPT !.terminals = IF type \in TerminalEvents THEN @ + 1 ELSE @,
              !.lastEvent = type,
              !.events = IF type = "ping" THEN @ ELSE Append(@, type),
              !.lastMessage =
                  LET eventWithTimestamp ==
                          [type |-> type, data |-> DataFields(type),
                           timestamp |-> "toISOString"]
                  IN  formatSSEMessage(type, eventWithTimestamp.data),
              !.afterTerminal = @ \/ (s.terminals > 0),
              !.whileClosed = @ \/ s.isClosed \/ s.ended]

\* sendEvent without its isClosed check
sendEvent_Unguarded(s, type) ==
    IF ~s.attached THEN s ELSE ResponseWrite(s, type)

\* SSEManager.sendEvent (a run without a manager sends nothing)
sendEvent(s, type) ==
    IF ~s.attached \/ s.isClosed THEN s ELSE ResponseWrite(s, type)

\* SSEManager.sendError(message, code)
sendError(s, message, code) ==
    LET t == sendEvent(s, "error")
    IN  IF t = s THEN s
        ELSE [t EXCEPT !.errorCode = code, !.errorMessage = message]

\* SSEManager.sendComplete(result)
sendComplete(s, result) ==
    LET t == sendEvent(s, "complete")
    IN  IF t = s THEN s ELSE [t EXCEPT !.completeData = result]

\* streamTaskCompletion passing an empty result text
streamTaskCompletion_DropsResult(s, tid, result, metadata) ==
    sendComplete(s, [taskId |-> tid, result |-> <<>>,
                     metadata |-> [toolsUsed |-> metadata.toolsUsed,
                                   iterations |-> metadata.iterations]])

\* stream-formatter.streamTaskCompletion(taskId, result, metadata, sse)
streamTaskCompletion(s, tid, result, metadata) ==
    sendComplete(s, [taskId |-> tid, result |-> result,
                     metadata |-> [toolsUsed |-> metadata.toolsUsed,
                                   iterations |-> metadata.iterations]])

\* close without its isClosed check
close_Unguarded(s) ==
    IF ~s.attached THEN s
    ELSE [s EXCEPT !.isClosed = TRUE, !.pingActive = FALSE, !.ended = TRUE]

\* SSEManager.close
close(s) ==
    IF ~s.attached \/ s.isClosed THEN s
    ELSE [s EXCEPT !.isClosed = TRUE, !.pingActive = FALSE, !.ended = TRUE]

\* handleDisconnect without its clearInterval
handleDisconnect_KeepsTimer(s) ==
    IF s.isClosed THEN s
    ELSE [s EXCEPT !.isClosed = TRUE]

\* SSEManager.handleDisconnect
handleDisconnect(s) ==
    IF s.isClosed THEN s
    ELSE [s EXCEPT !.isClosed = TRUE, !.pingActive = FALSE]

\* new SSEManager(res, clientId): setupSSE starts the ping interval.
createSSEManager ==
    [NoSse EXCEPT !.attached = TRUE, !.pingActive = TRUE]

\* streamError with its closed test inverted
streamError_Inverted(s, error) ==
    IF s.attached /\ s.isClosed
    THEN sendError(s, error.message, error.name) ELSE s

\* stream-formatter.streamError
streamError(s, error) ==
    IF s.attached /\ ~s.isClosed
    THEN sendError(s, error.message, error.name) ELSE s

\* streamAgentResponse walking the blocks from the last to the first
RECURSIVE streamBlocks_Backwards(_, _, _)
streamBlocks_Backwards(s, content, i) ==
    IF i > Len(content) THEN s
    ELSE sendEvent(streamBlocks_Backwards(s, content, i + 1),
                   IF content[i].type = "text" THEN "thinking"
                   ELSE "tool_use")

\* stream-formatter.streamAgentResponse: one event per text / tool_use block
RECURSIVE streamBlocks(_, _, _)
streamBlocks(s, content, i) ==
    IF i > Len(content) THEN s
    ELSE streamBlocks(
           sendEvent(s, IF content[i].type = "text" THEN "thinking"
                        ELSE "tool_use"),
           content, i + 1)

streamAgentResponse(s, r) == streamBlocks(s, r.content, 1)

\* --------------------------------------------------------- AgentExecutor
\* agent-context.createAgentContext(userId, taskId, options)
createAgentContext(userId, tid) == [userId |-> userId, taskId |-> tid]

NoContext == [userId |-> "-", taskId |-> "-"]
NoOutcome == [kind |-> "none", error |-> NoError, taskId |-> "-",
              result |-> <<>>, iterations |-> 0, toolsUsed |-> 0]

\* AgentExecutor.countToolUses
RECURSIVE countFrom(_, _)
countFrom(content, i) ==
    IF i > Len(content) THEN 0
    ELSE (IF content[i].type = "tool_use" THEN 1 ELSE 0)
         + countFrom(content, i + 1)

countToolUses(r) == countFrom(r.content, 1)

\* What extractTextFromResponse returns for a response without text.
NoTextOutput == "Task completed (no text output)"

\* The texts of the text blocks from block i on, each named by its block.
RECURSIVE textsFrom(_, _)
textsFrom(content, i) ==
    IF i > Len(content) THEN <<>>
    ELSE (IF content[i].type = "text" THEN <<ToString(BlockId(i))>>
          ELSE <<>>)
         \o textsFrom(content, i + 1)

\* The separator extractTextFromResponse joins the texts with.
BlankLine == "\n\n"

\* Array.prototype.join(separator) from element i on: a string as the
\* sequence of its pieces
RECURSIVE join(_, _, _)
join(texts, separator, i) ==
    IF i > Len(texts) THEN <<>>
    ELSE (IF i > 1 THEN <<separator>> ELSE <<>>)
         \o <<texts[i]>> \o join(texts, separator, i + 1)

\* extractTextFromResponse returning the first text block only
extractTextFromResponse_FirstOnly(r) ==
    LET textBlocks == textsFrom(r.content, 1)
    IN  IF Len(textBlocks) = 0 THEN <<NoTextOutput>>
        ELSE <<textBlocks[1]>>

\* AgentExecutor.extractTextFromResponse: the texts in order joined by
\* blank lines, or the fixed sentence when there is none
extractTextFromResponse(r) ==
    LET textBlocks == textsFrom(r.content, 1)
    IN  IF Len(textBlocks) = 0 THEN <<NoTextOutput>>
        ELSE join(textBlocks, BlankLine, 1)

\* The ids of the tool_use blocks among blocks i..n of a response, in the
\* order of the blocks (what `for (const block of response.content)`
\* visits).
RECURSIVE toolUseIds(_, _, _)
toolUseIds(content, i, n) ==
    IF i > n \/ i > Len(content) THEN <<>>
    ELSE (IF content[i].type = "tool_use" THEN <<BlockId(i)>> ELSE <<>>)
         \o toolUseIds(content, i + 1, n)

\* Anthropic.MessageParam: a turn of the conversation, its content named
\* by the value it was built from.
UserTurn(content) == [role |-> "user", content |-> content]
AssistantTurn(content) == [role |-> "assistant", content |-> content]

\* The loop's variables as one record, so that the synchronous stretch
\* between two awaits is a function from record to record.
LoopState ==
    [lpc |-> lpc, iteration |-> iteration, response |-> response,
     blockIdx |-> blockIdx, toolResults |-> toolResults,
     toolLog |-> toolLog, messagesLen |-> messagesLen,
     messages |-> messages,
     messagesNotFound |-> messagesNotFound,
     loopErr |-> loopErr,
     completionCalls |-> completionCalls, toolRounds |-> toolRounds,
     sse |-> sse]

\* the loop test written `iteration <= maxIterations`
NextIteration_OffByOne(L) ==
    LET M == [L EXCEPT !.response = NoResponse, !.toolResults = <<>>,
                       !.toolLog = <<>>, !.blockIdx = 0,
                       !.sse = [@ EXCEPT !.events = <<>>]]
    IN  IF L.iteration <= MAX_ITERATIONS
        THEN [M EXCEPT !.iteration = @ + 1, !.completionCalls = @ + 1,
                       !.lpc = "awaitClient"]
        ELSE [M EXCEPT !.lpc = "threw",
                       !.loopErr = AgentExecutionError(
                                     <<"Agent exceeded maximum iterations">>)]

\* Top of `while (iteration < maxIterations)`: either the next
\* client.messages.create is issued or the loop throws.  The response and
\* the tool results of the finished iteration are out of scope by then.
NextIteration(L) ==
    LET M == [L EXCEPT !.response = NoResponse, !.toolResults = <<>>,
                       !.toolLog = <<>>, !.blockIdx = 0,
                       !.sse = [@ EXCEPT !.events = <<>>]]
    IN  IF L.iteration < MAX_ITERATIONS
        THEN [M EXCEPT !.iteration = @ + 1, !.completionCalls = @ + 1,
                       !.lpc = "awaitClient"]
        ELSE [M EXCEPT !.lpc = "threw",
                       !.loopErr = AgentExecutionError(
                                     <<"Agent exceeded maximum iterations">>)]

\* What the content of a tool_result says went wrong ("-": nothing).
NotFound == "Tool not found"
ToolFailed == "tool failed"

\* catch of executeTools: the error becomes a tool_result whose content
\* carries the error's message
ErrorResult(id, message) ==
    [tool_use_id |-> id, is_error |-> TRUE, error |-> message]

\* the tool_result pushed after tool.execute resolved
ToolResult(id, o) ==
    [tool_use_id |-> id, is_error |-> (o = "is_error"), error |-> "-"]

\* executeTools that passes over a block naming no registered tool
RECURSIVE ScanBlocks_SkipUnknown(_, _, _)
ScanBlocks_SkipUnknown(content, i, rs) ==
    IF i > Len(content) THEN [idx |-> i, results |-> rs]
    ELSE IF content[i].type # "tool_use"
         THEN ScanBlocks_SkipUnknown(content, i + 1, rs)
    ELSE IF content[i].name \notin allTools
         THEN ScanBlocks_SkipUnknown(content, i + 1, rs)
    ELSE [idx |-> i, results |-> rs]

\* executeTools, from block i up to the first block whose tool.execute
\* has to be awaited: other blocks are skipped, an unknown tool name
\* throws inside the try and is caught at once.
RECURSIVE ScanBlocks(_, _, _)
ScanBlocks(content, i, rs) ==
    IF i > Len(content) THEN [idx |-> i, results |-> rs]
    ELSE IF content[i].type # "tool_use" THEN ScanBlocks(content, i + 1, rs)
    ELSE IF content[i].name \notin allTools
         THEN ScanBlocks(content, i + 1,
                         Append(rs, ErrorResult(BlockId(i), NotFound)))
    ELSE [idx |-> i, results |-> rs]

\* executeTools continues at block i; when the blocks are exhausted it
\* returns toolResults to the loop.
ContinueTools(L, i) ==
    LET content == L.response.content
        sc == ScanBlocks(content, i, L.toolResults)
    IN  IF sc.idx > Len(content)
        THEN [L EXCEPT !.toolResults = sc.results, !.blockIdx = 0,
                       !.lpc = "toolsDone"]
        ELSE [L EXCEPT !.toolResults = sc.results,
                       !.blockIdx = sc.idx,
                       !.lpc = "awaitTool",
                       !.toolLog = Append(@, [id |-> BlockId(sc.idx),
                                              ctx |-> context,
                                              outcome |-> "pending"])]

\* executeAgentLoop resumed with the response of messages.create
OnResponse(L, r) ==
    LET s1 == streamAgentResponse(L.sse, r)
    IN  IF r.stop_reason = "tool_use"
        THEN ContinueTools(
               [L EXCEPT !.response = r,
                         !.sse = sendEvent(s1, "progress"),
                         !.toolResults = <<>>, !.toolLog = <<>>,
                         !.toolRounds = @ + 1],
               1)
        ELSE [L EXCEPT !.response = r, !.sse = s1, !.lpc = "returned"]

\* What a throwing tool throws.
ToolError == [name |-> "Error", code |-> "-", message |-> <<ToolFailed>>]

\* executeTools without its try/catch: a throwing tool ends the loop
OnToolSettled_NoCatch(L, o) ==
    LET i == L.blockIdx
        logged == [L.toolLog EXCEPT ![Len(L.toolLog)].outcome = o]
    IN  IF o = "throws"
        THEN [L EXCEPT !.toolLog = logged, !.lpc = "threw",
                       !.loopErr = ToolError]
        ELSE ContinueTools(
               [L EXCEPT !.toolLog = logged,
                         !.sse = sendEvent(@, "tool_use"),
                         !.toolResults =
                             Append(@, ToolResult(BlockId(i), o))],
               i + 1)

\* executeTools putting each outcome in front of the earlier ones
OnToolSettled_Unshift(L, o) ==
    LET i == L.blockIdx
        logged == [L.toolLog EXCEPT ![Len(L.toolLog)].outcome = o]
        L1 == IF o = "throws"
              THEN [L EXCEPT !.toolLog = logged,
                        !.toolResults =
                            <<ErrorResult(BlockId(i), ToolFailed)>> \o @]
              ELSE [L EXCEPT !.toolLog = logged,
                        !.sse = sendEvent(@, "tool_use"),
                        !.toolResults =
                            <<ToolResult(BlockId(i), o)>> \o @]
    IN  ContinueTools(L1, i + 1)

\* executeTools resumed when the awaited tool.execute settles with o
OnToolSettled(L, o) ==
    LET i == L.blockIdx
        logged == [L.toolLog EXCEPT ![Len(L.toolLog)].outcome = o]
        L1 == IF o = "throws"
              THEN [L EXCEPT !.toolLog = logged,
                        !.toolResults =
                            Append(@, ErrorResult(BlockId(i), ToolFailed))]
              ELSE [L EXCEPT !.toolLog = logged,
                        !.sse = sendEvent(@, "tool_use"),
                        !.toolResults =
                            Append(@, ToolResult(BlockId(i), o))]
    IN  ContinueTools(L1, i + 1)

\* the catch rethrowing whatever it caught
WrapError_Rethrow(error) == error

\* catch of executeTask: TimeoutError is rethrown, anything else wrapped
WrapError(error) ==
    IF error.name = "TimeoutError" THEN error
    ELSE AgentExecutionError(<<"Agent task execution failed">>
                             \o error.message)

\* agentTaskRequestSchema.parse(req.body) throws zod's ZodError
ZodError == [name |-> "ZodError", code |-> "-",
             message |-> <<"invalid request body">>]

\* catch of executeAgentTaskStreaming
ControllerStreamCatch(s, error) ==
    IF s.attached /\ ~s.isClosed
    THEN close(sendError(s, error.message,
                         IF error.name = "ValidationError"
                         THEN "VALIDATION_ERROR" ELSE "EXECUTION_ERROR"))
    ELSE s

\* res.status(...).json(...) of POST /agent/task
NoReply == [status |-> 0, code |-> "-", message |-> <<>>, taskId |-> "-"]

\* executeAgentTask: the 200 answer
ReplyResult(result) ==
    [status |-> 200, code |-> "-", message |-> <<>>,
     taskId |-> result.taskId]

\* catch of executeAgentTask
executeAgentTaskCatch(error) ==
    IF error.name = "ValidationError"
    THEN [status |-> 400, code |-> "VALIDATION_ERROR",
          message |-> error.message, taskId |-> "-"]
    ELSE [status |-> 500, code |-> "EXECUTION_ERROR",
          message |-> error.message, taskId |-> "-"]

\* executeTask after the race settled with the loop's response
SettleReturned(r, s) ==
    LET finalText == extractTextFromResponse(r)
        result == [kind |-> "returned", error |-> NoError,
                   taskId |-> taskId, result |-> finalText,
                   iterations |-> 1, toolsUsed |-> countToolUses(r)]
    IN
    [epc |-> "settled",
     outcome |-> result,
     sse |-> close(streamTaskCompletion(s, taskId, finalText, result)),
     reply |-> IF s.attached THEN reply
               ELSE ReplyResult([taskId |-> taskId])]

\* executeTask after the race settled with a rejection
SettleRejected(error, s) ==
    [epc |-> "settled",
     outcome |-> [kind |-> "rejected", error |-> WrapError(error),
                  taskId |-> taskId, result |-> <<>>, iterations |-> 0,
                  toolsUsed |-> 0],
     sse |-> ControllerStreamCatch(close(streamError(s, error)),
                                   WrapError(error)),
     reply |-> IF s.attached THEN reply
               ELSE executeAgentTaskCatch(WrapError(error))]

\* The continuation of executeTask runs in the same turn in which the
\* loop's promise settles; a loop outliving the race changes nothing.
Settle(L) ==
    IF epc = "racing" /\ L.lpc = "returned"
    THEN SettleReturned(L.response, L.sse)
    ELSE IF epc = "racing" /\ L.lpc = "threw"
    THEN SettleRejected(L.loopErr, L.sse)
    ELSE [epc |-> epc, outcome |-> outcome, sse |-> L.sse, reply |-> reply]

\* Assign the loop's variables and what executeTask makes of them.
LoopStep(L) ==
    /\ lpc' = L.lpc
    /\ iteration' = L.iteration
    /\ response' = L.response
    /\ blockIdx' = L.blockIdx
    /\ toolResults' = L.toolResults
    /\ toolLog' = L.toolLog
    /\ messagesLen' = L.messagesLen
    /\ messages' = L.messages
    /\ messagesNotFound' = L.messagesNotFound
    /\ loopErr' = L.loopErr
    /\ completionCalls' = L.completionCalls
    /\ toolRounds' = L.toolRounds
    /\ epc' = Settle(L).epc
    /\ outcome' = Settle(L).outcome
    /\ sse' = Settle(L).sse
    /\ reply' = Settle(L).reply
    /\ cpc' = IF Settle(L).epc = "settled" THEN "done" ELSE cpc

\* executeTask(input, sseManager) up to the first await: progress event,
\* context, and the first iteration's messages.create.
StartTask(u, t, s) ==
    /\ epc' = "racing"
    /\ input' = u
    /\ taskId' = t
    /\ context' = createAgentContext(t, u)
    /\ sse' = sendEvent(s, "progress")
    /\ lpc' = "awaitClient"
    /\ iteration' = 1
    /\ completionCalls' = 1
    /\ messagesLen' = 1
    /\ messages' = <<UserTurn("input.task")>>
    /\ messagesNotFound' = FALSE
    /\ cpc' = "running"
    /\ UNCHANGED <<reply, outcome, timerFired, response, blockIdx, toolResults,
                   toolLog, loopErr, toolRounds>>

\* POST /agent/task/stream
executeAgentTaskStreaming(valid, u, t) ==
    /\ cpc = "idle"
    /\ IF valid
       THEN StartTask(u, t, createSSEManager)
       ELSE /\ cpc' = "done"
            /\ sse' = ControllerStreamCatch(createSSEManager, ZodError)
            /\ UNCHANGED <<reply, epc, input, taskId, context, outcome, timerFired,
                           lpc, iteration, response, blockIdx, toolResults,
                           toolLog, messagesLen, messages, messagesNotFound, loopErr, completionCalls,
                           toolRounds>>
    /\ UNCHANGED queueVars

\* executeTask(input) without a manager
executeTask(u, t) ==
    /\ cpc = "idle"
    /\ StartTask(u, t, NoSse)
    /\ UNCHANGED queueVars

\* POST /agent/task: parse, then executor.executeTask(taskInput); a body
\* the schema rejects goes to the catch at once.
executeAgentTask(valid, u, t) ==
    IF valid
    THEN executeTask(u, t)
    ELSE /\ cpc = "idle"
         /\ cpc' = "done"
         /\ reply' = executeAgentTaskCatch(ZodError)
         /\ UNCHANGED <<epc, input, taskId, context, outcome, timerFired,
                        lpc, iteration, response, blockIdx, toolResults,
                        toolLog, messagesLen, messages, messagesNotFound, loopErr,
                        completionCalls, toolRounds, sse>>
         /\ UNCHANGED queueVars

\* client.messages.create resolves
ClientRespond(r) ==
    /\ lpc = "awaitClient"
    /\ LoopStep(OnResponse(LoopState, r))
    /\ UNCHANGED <<input, taskId, context, timerFired>>
    /\ UNCHANGED queueVars

\* client.messages.create rejects
ClientReject(e) ==
    /\ lpc = "awaitClient"
    /\ LoopStep([LoopState EXCEPT !.lpc = "threw", !.loopErr = e])
    /\ UNCHANGED <<input, taskId, context, timerFired>>
    /\ UNCHANGED queueVars

\* the awaited tool.execute settles
ToolSettle(o) ==
    /\ lpc = "awaitTool"
    /\ LoopStep(OnToolSettled(LoopState, o))
    /\ UNCHANGED <<input, taskId, context, timerFired>>
    /\ UNCHANGED queueVars

\* the two pushes in the other order
PushToolResults_ResultsFirst(L) ==
    [L EXCEPT !.messagesLen = @ + 2,
              !.messages = @ \o <<UserTurn("toolResults"),
                                  AssistantTurn("response.content")>>,
              !.messagesNotFound =
                  @ \/ \E k \in 1..Len(L.toolResults) :
                          L.toolResults[k].error = NotFound]

\* messages.push(assistant turn); messages.push(user turn of toolResults)
PushToolResults(L) ==
    [L EXCEPT !.messagesLen = @ + 2,
              !.messages = @ \o <<AssistantTurn("response.content"),
                                  UserTurn("toolResults")>>,
              !.messagesNotFound =
                  @ \/ \E k \in 1..Len(L.toolResults) :
                          L.toolResults[k].error = NotFound]

\* The loop resumes after `await this.executeTools(...)`: the assistant
\* turn and the tool results are pushed and the loop goes round.
LoopContinue ==
    /\ lpc = "toolsDone"
    /\ LoopStep(NextIteration(PushToolResults(LoopState)))
    /\ UNCHANGED <<input, taskId, context, timerFired>>
    /\ UNCHANGED queueVars

\* a timer whose callback rejects nothing
TimerFire_NoReject ==
    /\ epc # "idle"
    /\ ~timerFired
    /\ timerFired' = TRUE
    /\ UNCHANGED <<epc, outcome, sse, cpc, reply>>
    /\ UNCHANGED <<input, taskId, context, lpc, iteration, response,
                   blockIdx, toolResults, toolLog, messagesLen, messages,
                   messagesNotFound, loopErr, completionCalls, toolRounds>>
    /\ UNCHANGED queueVars

\* The timer of executeWithTimeout fires.  While the race is open it
\* rejects executeTask with TimeoutError; the loop is not cancelled.
TimerFire ==
    /\ epc # "idle"
    /\ ~timerFired
    /\ timerFired' = TRUE
    /\ IF epc = "racing"
       THEN /\ epc' = "settled"
            /\ outcome' = SettleRejected(TimeoutError, sse).outcome
            /\ sse' = SettleRejected(TimeoutError, sse).sse
            /\ reply' = SettleRejected(TimeoutError, sse).reply
            /\ cpc' = "done"
       ELSE UNCHANGED <<epc, outcome, sse, cpc, reply>>
    /\ UNCHANGED <<input, taskId, context, lpc, iteration, response,
                   blockIdx, toolResults, toolLog, messagesLen, messages, messagesNotFound, loopErr,
                   completionCalls, toolRounds>>
    /\ UNCHANGED queueVars

\* The setInterval callback of startPingInterval
Ping ==
    /\ sse.pingActive
    /\ sse' = IF ~sse.isClosed THEN sendEvent(sse, "ping") ELSE sse
    /\ UNCHANGED <<reply, cpc, epc, input, taskId, context, outcome, timerFired,
                   lpc, iteration, response, blockIdx, toolResults, toolLog,
                   messagesLen, messages, messagesNotFound, loopErr, completionCalls, toolRounds>>
    /\ UNCHANGED queueVars

\* a disconnect that aborts the run
Disconnect_Cancels ==
    /\ sse.attached
    /\ ~sse.remoteGone
    /\ sse' = [handleDisconnect(sse) EXCEPT !.remoteGone = TRUE]
    /\ lpc' = IF lpc \in {"awaitClient", "awaitTool", "toolsDone"}
              THEN "threw" ELSE lpc
    /\ UNCHANGED <<reply, cpc, epc, input, taskId, context, outcome,
                   timerFired, iteration, response, blockIdx, toolResults,
                   toolLog, messagesLen, messages, messagesNotFound, loopErr,
                   completionCalls, toolRounds>>
    /\ UNCHANGED queueVars

\* The caller goes away: the response emits 'close'.
Disconnect ==
    /\ sse.attached
    /\ ~sse.remoteGone
    /\ sse' = [handleDisconnect(sse) EXCEPT !.remoteGone = TRUE]
    /\ UNCHANGED <<reply, cpc, epc, input, taskId, context, outcome, timerFired,
                   lpc, iteration, response, blockIdx, toolResults, toolLog,
                   messagesLen, messages, messagesNotFound, loopErr, completionCalls, toolRounds>>
    /\ UNCHANGED queueVars

\* ---------------------------------------------------- TaskTrackerService
\* TaskStatus
PENDING == "pending"
IN_PROGRESS == "in_progress"
COMPLETED == "completed"
FAILED == "failed"
TerminalStatuses == {COMPLETED, FAILED}

\* Fields a TaskRecord may lack.
NoStoredError == [message |-> <<>>, code |-> "-"]
NoMetadata == [toolsUsed |-> -1, iterations |-> -1, retryCount |-> -1]
NoRecord == [exists |-> FALSE, userId |-> "-", status |-> "-",
             result |-> "-", error |-> NoStoredError,
             metadata |-> NoMetadata, createdAt |-> -1, updatedAt |-> -1,
             completedAt |-> -1]

\* DocumentReference.update(updateData): the named top-level fields are
\* replaced, the others kept.
Merge(rec, updateData) ==
    [k \in DOMAIN rec |->
        IF k \in DOMAIN updateData THEN updateData[k] ELSE rec[k]]

\* TaskTrackerService.createTask: doc(taskId).set(taskRecord)
createTask(rec, userId) ==
    [NoRecord EXCEPT !.exists = TRUE, !.userId = userId, !.status = PENDING,
                     !.createdAt = now, !.updatedAt = now]

\* TaskTrackerService.updateTaskStatus (called without metadata)
updateTaskStatus(rec, status) ==
    Merge(rec,
          IF status \in TerminalStatuses
          THEN [status |-> status, updatedAt |-> now, completedAt |-> now]
          ELSE [status |-> status, updatedAt |-> now])

\* TaskTrackerService.markTaskProcessing
markTaskProcessing(rec) == updateTaskStatus(rec, IN_PROGRESS)

\* TaskTrackerService.markTaskCompleted
markTaskCompleted(rec, result) ==
    Merge(rec, [status |-> COMPLETED,
                result |-> "text",
                metadata |-> [NoMetadata EXCEPT
                                !.toolsUsed = result.toolsUsed,
                                !.iterations = result.iterations],
                updatedAt |-> now,
                completedAt |-> now])

\* TaskTrackerService.markTaskFailed
markTaskFailed(rec, error, retryCount) ==
    Merge(rec, [status |-> FAILED,
                error |-> [message |-> error.message, code |-> error.name],
                updatedAt |-> now,
                completedAt |-> now,
                metadata |-> [NoMetadata EXCEPT !.retryCount = retryCount]])

\* ------------------------------------------------------- queue and worker
\* Rejections of the stores the worker talks to.
RedisError == [name |-> "Error", code |-> "-", message |-> <<"redis">>]
FirestoreFailure == [name |-> "Error", code |-> "-",
                     message |-> <<"firestore">>]

\* The task id executeTask gives the run it starts for the worker:
\* `const taskId = randomUUID()`, an id no stored task has.
WorkerRunId == "uuid"

\* How executor.executeTask may settle for the worker.
ExecOutcomes ==
    { [kind |-> "returned", error |-> NoError, taskId |-> WorkerRunId,
       result |-> <<NoTextOutput>>,
       iterations |-> 1, toolsUsed |-> 0] }
    \cup
    { [kind |-> "rejected", error |-> e, taskId |-> WorkerRunId,
       result |-> <<>>,
       iterations |-> 0, toolsUsed |-> 0] :
        e \in { TimeoutError,
                AgentExecutionError(<<"Agent task execution failed",
                                      "api error">>) } }

\* defaultJobOptions.attempts
JobAttempts == QUEUE_MAX_RETRIES + 1

\* job.progress before the first updateProgress.
NoProgress == [status |-> "-", progress |-> -1]

\* No job under this id.  delay: the milliseconds the job was last
\* delayed by before a retry.  copies: jobs the queue holds for the task;
\* adds: calls of queue.add made for it; lastId: the id the last one
\* returned; markFailedCalls: calls of markTaskFailed made by its attempts.
NoJob == [state |-> "none", attemptsMade |-> 0, processed |-> 0,
          wpc |-> "-", err |-> NoError, result |-> NoOutcome,
          copies |-> 0, adds |-> 0, lastId |-> "-", markFailedCalls |-> 0,
          delay |-> 0, progress |-> NoProgress]

\* The id BullMQ gives a job added without jobId.
GeneratedId == "generated"

\* enqueueAgentTask that does not pass the task id as jobId
enqueueAgentTask_NoJobId(j, t) ==
    [j EXCEPT !.state = IF @ = "none" THEN "waiting" ELSE @,
              !.copies = @ + 1,
              !.adds = @ + 1,
              !.lastId = GeneratedId]

\* enqueueAgentTask: queue.add with jobId = metadata.taskId.  A job that
\* exists under that id is left as it is and its id returned.
enqueueAgentTask(j, t) ==
    IF j.state = "none"
    THEN [NoJob EXCEPT !.state = "waiting", !.copies = 1, !.adds = 1,
                       !.lastId = t]
    ELSE [j EXCEPT !.adds = @ + 1, !.lastId = t]

\* a catch that returns instead of rethrowing
Caught_Swallow(j, e) ==
    [j EXCEPT !.wpc = "-", !.state = "completed", !.err = e]

\* processAgentTask leaves the try block with error e
Caught(j, e) == [j EXCEPT !.wpc = "catch", !.err = e]

\* the last-attempt test written with >
IsLastAttempt_Strict(attemptNumber) == attemptNumber > QUEUE_MAX_RETRIES

\* the last-attempt test counting the attempts from 1
IsLastAttempt_Early(attemptNumber) == attemptNumber + 1 >= QUEUE_MAX_RETRIES

\* catch of processAgentTask: attemptNumber >= env.QUEUE_MAX_RETRIES
IsLastAttempt(attemptNumber) == attemptNumber >= QUEUE_MAX_RETRIES

\* The queue endpoint has not answered.
NoQueueReply == [status |-> 0, code |-> "-", taskId |-> "-", jobId |-> "-",
                 taskStatus |-> "-"]

\* catch of queueAgentTask
queueAgentTaskCatch(error) ==
    IF error.name = "ValidationError"
    THEN [NoQueueReply EXCEPT !.status = 400, !.code = "VALIDATION_ERROR"]
    ELSE [NoQueueReply EXCEPT !.status = 500, !.code = "QUEUE_ERROR"]

\* queueAgentTask going on to enqueue whether createTask succeeded or not
queueAgentTask_IgnoresCreate(valid, u, t, createOk) ==
    /\ qpc = "idle"
    /\ ~tracker[t].exists
    /\ IF ~valid
       THEN /\ qpc' = "done"
            /\ qreply' = queueAgentTaskCatch(ZodError)
            /\ UNCHANGED <<qtask, tracker, now>>
       ELSE /\ qpc' = "enqueue"
            /\ qtask' = t
            /\ IF createOk
               THEN /\ tracker' = [tracker EXCEPT ![t] = createTask(@, u)]
                    /\ now' = now + 1
               ELSE UNCHANGED <<tracker, now>>
            /\ UNCHANGED qreply
    /\ UNCHANGED <<job, sreply>>
    /\ UNCHANGED <<execVars, runs>>

\* POST /agent/task/queue up to its first await: parse, randomUUID(),
\* createTask.  The task id is fresh; createOk tells whether the Firestore
\* write succeeds.
queueAgentTask(valid, u, t, createOk) ==
    /\ qpc = "idle"
    /\ ~tracker[t].exists
    /\ IF ~valid
       THEN /\ qpc' = "done"
            /\ qreply' = queueAgentTaskCatch(ZodError)
            /\ UNCHANGED <<qtask, tracker, now>>
       ELSE IF ~createOk
       THEN /\ qpc' = "done"
            /\ qtask' = t
            /\ qreply' = queueAgentTaskCatch(FirestoreFailure)
            /\ UNCHANGED <<tracker, now>>
       ELSE /\ qpc' = "enqueue"
            /\ qtask' = t
            /\ tracker' = [tracker EXCEPT ![t] = createTask(@, u)]
            /\ now' = now + 1
            /\ UNCHANGED qreply
    /\ UNCHANGED <<job, sreply>>
    /\ UNCHANGED <<execVars, runs>>

\* POST /agent/task/queue after createTask resolved: enqueueAgentTask,
\* then 202 with the task id, the job id and status pending.
queueAgentTaskEnqueue(enqueueOk) ==
    /\ qpc = "enqueue"
    /\ qpc' = "done"
    /\ IF enqueueOk
       THEN /\ job' = [job EXCEPT ![qtask] = enqueueAgentTask(@, qtask)]
            /\ qreply' = [status |-> 202, code |-> "-", taskId |-> qtask,
                          jobId |-> job'[qtask].lastId,
                          taskStatus |-> PENDING]
       ELSE /\ qreply' = queueAgentTaskCatch(RedisError)
            /\ UNCHANGED job
    /\ UNCHANGED <<qtask, sreply, tracker, now>>
    /\ UNCHANGED <<execVars, runs>>

\* The status endpoint has not answered.
NoStatusReply == [status |-> 0, code |-> "-", taskId |-> "-",
                  taskStatus |-> "-", result |-> "-",
                  error |-> NoStoredError]

\* a status reply that reports an unknown task as pending
StatusReply_Fabricates(t, task) ==
    IF ~task.exists
    THEN [NoStatusReply EXCEPT !.status = 200, !.taskId = t,
                               !.taskStatus = PENDING]
    ELSE [status |-> 200, code |-> "-", taskId |-> t,
          taskStatus |-> task.status, result |-> task.result,
          error |-> task.error]

\* getTaskStatus after getTask resolved with task (null: no document)
StatusReply(t, task) ==
    IF ~task.exists
    THEN [NoStatusReply EXCEPT !.status = 404, !.code = "TASK_NOT_FOUND",
                               !.taskId = t]
    ELSE [status |-> 200, code |-> "-", taskId |-> t,
          taskStatus |-> task.status, result |-> task.result,
          error |-> task.error]

\* GET /agent/task/:taskId; ok tells whether the Firestore read succeeds.
getTaskStatus(t, ok) ==
    /\ sreply' = IF ok THEN StatusReply(t, tracker[t])
                 ELSE [NoStatusReply EXCEPT !.status = 500,
                                            !.code = "STATUS_ERROR",
                                            !.taskId = t]
    /\ UNCHANGED <<qpc, qtask, qreply, tracker, job, now>>
    /\ UNCHANGED <<execVars, runs>>

\* enqueueAgentTask called once more with the task id of a job the queue
\* holds
EnqueueAgain(t) ==
    /\ job[t].state # "none"
    /\ job[t].adds < MaxAdds
    /\ job' = [job EXCEPT ![t] = enqueueAgentTask(@, t)]
    /\ UNCHANGED <<endpointVars, tracker, now>>
    /\ UNCHANGED <<execVars, runs>>

\* A worker takes the job: processAgentTask starts an attempt.
WorkerPick(t) ==
    /\ job[t].state \in {"waiting", "delayed"}
    /\ job' = [job EXCEPT ![t] = [@ EXCEPT !.state = "active",
                                           !.processed = @ + 1,
                                           !.wpc = "starting",
                                           !.err = NoError,
                                           !.result = NoOutcome]]
    /\ UNCHANGED <<endpointVars, tracker, now>>
    /\ UNCHANGED <<execVars, runs>>

\* the markers with the percentages of executing and finalizing exchanged
ProgressMarker_Exchanged(at) ==
    CASE at = "starting" -> [status |-> "starting", progress |-> 0]
      [] at = "executing" -> [status |-> "executing", progress |-> 75]
      [] at = "finalizing" -> [status |-> "finalizing", progress |-> 25]
      [] at = "completed" -> [status |-> "completed", progress |-> 100]

\* The argument of job.updateProgress at each of its four places.
ProgressMarker(at) ==
    CASE at = "starting" -> [status |-> "starting", progress |-> 0]
      [] at = "executing" -> [status |-> "executing", progress |-> 25]
      [] at = "finalizing" -> [status |-> "finalizing", progress |-> 75]
      [] at = "completed" -> [status |-> "completed", progress |-> 100]

\* await job.updateProgress(...) at one of its four places; the marker is
\* stored when the call resolves.
UpdateProgress(t, ok) ==
    /\ job[t].state = "active"
    /\ job[t].wpc \in {"starting", "executing", "finalizing", "completed"}
    /\ job' = [job EXCEPT ![t] =
                 IF ~ok THEN Caught(@, RedisError)
                 ELSE LET j == [@ EXCEPT !.progress =
                                            ProgressMarker(job[t].wpc)]
                      IN  IF j.wpc = "starting"
                          THEN [j EXCEPT !.wpc = "markProcessing"]
                          ELSE IF j.wpc = "executing"
                          THEN [j EXCEPT !.wpc = "execute"]
                          ELSE IF j.wpc = "finalizing"
                          THEN [j EXCEPT !.wpc = "markCompleted"]
                          ELSE [j EXCEPT !.wpc = "-", !.state = "completed"]]
    /\ UNCHANGED <<endpointVars, tracker, now>>
    /\ UNCHANGED <<execVars, runs>>

\* await taskTrackerService.markTaskProcessing(metadata.taskId)
MarkProcessing(t, ok) ==
    /\ job[t].state = "active"
    /\ job[t].wpc = "markProcessing"
    /\ IF ok /\ tracker[t].exists
       THEN /\ tracker' = [tracker EXCEPT ![t] = markTaskProcessing(@)]
            /\ now' = now + 1
            /\ job' = [job EXCEPT ![t] = [@ EXCEPT !.wpc = "executing"]]
       ELSE /\ job' = [job EXCEPT ![t] = Caught(@, FirestoreFailure)]
            /\ UNCHANGED <<tracker, now>>
    /\ UNCHANGED endpointVars
    /\ UNCHANGED <<execVars, runs>>

\* await executor.executeTask(taskInput)
Execute(t, o) ==
    /\ job[t].state = "active"
    /\ job[t].wpc = "execute"
    /\ job' = [job EXCEPT ![t] =
                 IF o.kind = "returned"
                 THEN [@ EXCEPT !.wpc = "finalizing", !.result = o]
                 ELSE Caught(@, o.error)]
    /\ UNCHANGED <<endpointVars, tracker, now>>
    /\ UNCHANGED <<execVars, runs>>

\* await taskTrackerService.markTaskCompleted(metadata.taskId, result)
MarkCompleted(t, ok) ==
    /\ job[t].state = "active"
    /\ job[t].wpc = "markCompleted"
    /\ IF ok /\ tracker[t].exists
       THEN /\ tracker' = [tracker EXCEPT ![t] =
                             markTaskCompleted(@, job[t].result)]
            /\ now' = now + 1
            /\ job' = [job EXCEPT ![t] = [@ EXCEPT !.wpc = "completed"]]
       ELSE /\ job' = [job EXCEPT ![t] = Caught(@, FirestoreFailure)]
            /\ UNCHANGED <<tracker, now>>
    /\ UNCHANGED endpointVars
    /\ UNCHANGED <<execVars, runs>>

\* defaultJobOptions.backoff.delay
BACKOFF_DELAY == 1000

\* a backoff of type 'fixed'
BackoffDelay_Fixed(attemptsMade) == BACKOFF_DELAY

\* defaultJobOptions.backoff of type 'exponential': the delay before the
\* retry that follows the attemptsMade-th failed attempt
BackoffDelay(attemptsMade) == BACKOFF_DELAY * 2 ^ (attemptsMade - 1)

\* BullMQ after the processor threw: the attempt is counted and the job
\* is retried, after its backoff, while attempts remain.
JobFailed(j, e) ==
    [j EXCEPT !.attemptsMade = @ + 1,
              !.wpc = "-",
              !.err = e,
              !.state = IF j.attemptsMade + 1 < JobAttempts
                        THEN "delayed" ELSE "failed",
              !.delay = IF j.attemptsMade + 1 < JobAttempts
                        THEN BackoffDelay(j.attemptsMade + 1) ELSE @]

\* catch of processAgentTask: on the last attempt markTaskFailed is
\* awaited, then the error is rethrown to the queue.
WorkerCatch(t, ok) ==
    /\ job[t].state = "active"
    /\ job[t].wpc = "catch"
    /\ LET attemptNumber == job[t].attemptsMade
           called(j) == [j EXCEPT !.markFailedCalls = @ + 1]
       IN  IF IsLastAttempt(attemptNumber)
           THEN IF ok /\ tracker[t].exists
                THEN /\ tracker' = [tracker EXCEPT ![t] =
                                      markTaskFailed(@, job[t].err,
                                                     attemptNumber)]
                     /\ now' = now + 1
                     /\ job' = [job EXCEPT ![t] =
                                  JobFailed(called(@), @.err)]
                ELSE /\ job' = [job EXCEPT ![t] =
                                  JobFailed(called(@), FirestoreFailure)]
                     /\ UNCHANGED <<tracker, now>>
           ELSE /\ ok
                /\ job' = [job EXCEPT ![t] = JobFailed(@, @.err)]
                /\ UNCHANGED <<tracker, now>>
    /\ UNCHANGED endpointVars
    /\ UNCHANGED <<execVars, runs>>

ExecInit ==
    /\ cpc = "idle"
    /\ reply = NoReply
    /\ epc = "idle"
    /\ input = "-"
    /\ taskId = "-"
    /\ context = NoContext
    /\ outcome = NoOutcome
    /\ timerFired = FALSE
    /\ lpc = "idle"
    /\ iteration = 0
    /\ response = NoResponse
    /\ blockIdx = 0
    /\ toolResults = <<>>
    /\ toolLog = <<>>
    /\ messagesLen = 0
    /\ messages = <<>>
    /\ messagesNotFound = FALSE
    /\ loopErr = NoError
    /\ completionCalls = 0
    /\ toolRounds = 0
    /\ sse = NoSse

QueueInit ==
    /\ qpc = "idle"
    /\ qtask = "-"
    /\ qreply = NoQueueReply
    /\ sreply = NoStatusReply
    /\ tracker = [t \in TaskIds |-> NoRecord]
    /\ job = [t \in TaskIds |-> NoJob]
    /\ now = 0
    /\ runs = <<>>

Init == ExecInit /\ QueueInit

Next ==
    \/ \E valid \in BOOLEAN, u \in UserIds, t \in RunIds :
          executeAgentTaskStreaming(valid, u, t)
    \/ \E valid \in BOOLEAN, u \in UserIds, t \in RunIds :
          executeAgentTask(valid, u, t)
    \/ \E r \in Responses : ClientRespond(r)
    \/ \E e \in ClientErrors : ClientReject(e)
    \/ \E o \in ToolOutcomes : ToolSettle(o)
    \/ LoopContinue
    \/ TimerFire
    \/ Ping
    \/ Disconnect

Spec == Init /\ [][Next]_vars

\* The run under the one thing the event loop guarantees: a timer that was
\* set fires.  The completion client and the tools may stay silent.
SpecTimeout == Init /\ [][Next]_vars /\ WF_vars(TimerFire)

NextQueue ==
    \/ \E valid, createOk \in BOOLEAN, u \in UserIds, t \in TaskIds :
          queueAgentTask(valid, u, t, createOk)
    \/ \E enqueueOk \in BOOLEAN : queueAgentTaskEnqueue(enqueueOk)
    \/ \E t \in TaskIds, ok \in BOOLEAN : getTaskStatus(t, ok)
    \/ \E t \in TaskIds : EnqueueAgain(t)
    \/ \E t \in TaskIds : WorkerPick(t)
    \/ \E t \in TaskIds, ok \in BOOLEAN : UpdateProgress(t, ok)
    \/ \E t \in TaskIds, ok \in BOOLEAN : MarkProcessing(t, ok)
    \/ \E t \in TaskIds, o \in ExecOutcomes : Execute(t, o)
    \/ \E t \in TaskIds, ok \in BOOLEAN : MarkCompleted(t, ok)
    \/ \E t \in TaskIds, ok \in BOOLEAN : WorkerCatch(t, ok)

SpecQueue == Init /\ [][NextQueue]_vars

\* ------------------------------------------- the tracker's operations
\* Writes the tracker specification makes at most.
MaxWrites == 4

\* taskTrackerService.createTask(taskId, userId, task), whatever the
\* collection holds under taskId
CreateTask(t, u) ==
    /\ now < MaxWrites
    /\ tracker' = [tracker EXCEPT ![t] = createTask(@, u)]
    /\ now' = now + 1
    /\ UNCHANGED <<endpointVars, job>>
    /\ UNCHANGED <<execVars, runs>>

\* taskTrackerService.markTaskProcessing(taskId); update() rejects when
\* the document does not exist
MarkTaskProcessing(t) ==
    /\ now < MaxWrites
    /\ tracker[t].exists
    /\ tracker' = [tracker EXCEPT ![t] = markTaskProcessing(@)]
    /\ now' = now + 1
    /\ UNCHANGED <<endpointVars, job>>
    /\ UNCHANGED <<execVars, runs>>

\* taskTrackerService.markTaskCompleted(taskId, result)
MarkTaskCompleted(t, result) ==
    /\ now < MaxWrites
    /\ tracker[t].exists
    /\ tracker' = [tracker EXCEPT ![t] = markTaskCompleted(@, result)]
    /\ now' = now + 1
    /\ UNCHANGED <<endpointVars, job>>
    /\ UNCHANGED <<execVars, runs>>

\* taskTrackerService.markTaskFailed(taskId, error, retryCount)
MarkTaskFailed(t, error, retryCount) ==
    /\ now < MaxWrites
    /\ tracker[t].exists
    /\ tracker' = [tracker EXCEPT ![t] = markTaskFailed(@, error, retryCount)]
    /\ now' = now + 1
    /\ UNCHANGED <<endpointVars, job>>
    /\ UNCHANGED <<execVars, runs>>

NextTracker ==
    \/ \E t \in TaskIds, u \in UserIds : CreateTask(t, u)
    \/ \E t \in TaskIds : MarkTaskProcessing(t)
    \/ \E t \in TaskIds, o \in ExecOutcomes :
          o.kind = "returned" /\ MarkTaskCompleted(t, o)
    \/ \E t \in TaskIds, o \in ExecOutcomes :
          o.kind = "rejected" /\ MarkTaskFailed(t, o.error, QUEUE_MAX_RETRIES)

\* The tracker's operations applied in any order to any task id.
SpecTracker == Init /\ [][NextTracker]_vars

\* ------------------------------------- the runs of a job's attempts
\* env.QUEUE_CONCURRENCY (default)
QUEUE_CONCURRENCY == 3

\* Tool rounds a run of the worker specification makes at most.
MaxRounds == 1

\* a run that takes over the conversation and counters of the attempt
\* before it
NewRun_Resumes(rs) ==
    IF rs = <<>>
    THEN [attempt |-> 1, epc |-> "racing", kind |-> "none",
          lpc |-> "awaitClient", iteration |-> 1, completionCalls |-> 1,
          toolCalls |-> 0, messages |-> <<UserTurn("input.task")>>]
    ELSE [rs[Len(rs)] EXCEPT !.attempt = Len(rs) + 1, !.epc = "racing",
                             !.kind = "none", !.lpc = "awaitClient"]

\* createAgentExecutor().executeTask(taskInput) up to its first await:
\* taskId, counters and messages are locals of the call.
NewRun(rs) ==
    [attempt |-> Len(rs) + 1, epc |-> "racing", kind |-> "none",
     lpc |-> "awaitClient", iteration |-> 1, completionCalls |-> 1,
     toolCalls |-> 0, messages |-> <<UserTurn("input.task")>>]

\* The runs whose loop can still issue a completion call or a tool call.
LiveLoops(rs) ==
    {k \in DOMAIN rs : rs[k].lpc \in {"awaitClient", "awaitTool"}}

\* The runs whose executeTask a processor is still awaiting.
ActiveProcessors(rs) == {k \in DOMAIN rs : rs[k].epc = "racing"}

\* The race of executeWithTimeout seen from a run whose loop has ended.
SettleRun(r) ==
    IF r.epc = "racing" /\ r.lpc = "returned"
    THEN [r EXCEPT !.epc = "settled", !.kind = "returned"]
    ELSE IF r.epc = "racing" /\ r.lpc = "threw"
    THEN [r EXCEPT !.epc = "settled", !.kind = "rejected"]
    ELSE r

\* The worker takes the job for its first attempt, or for a retry after
\* the attempt before rejected, and processAgentTask calls executeTask.
AttemptExecuteTask ==
    /\ Len(runs) < JobAttempts
    /\ Cardinality(ActiveProcessors(runs)) < QUEUE_CONCURRENCY
    /\ runs # <<>> =>
         (runs[Len(runs)].epc = "settled"
          /\ runs[Len(runs)].kind = "rejected")
    /\ runs' = Append(runs, NewRun(runs))
    /\ UNCHANGED <<execVars, qpc, qtask, qreply, sreply, tracker, job, now>>

\* messages.create of run k resolves
RunClientRespond(k, stop_reason) ==
    /\ runs[k].lpc = "awaitClient"
    /\ IF stop_reason = "tool_use"
       THEN /\ runs[k].toolCalls < MaxRounds
            /\ runs' = [runs EXCEPT ![k] =
                           [@ EXCEPT !.lpc = "awaitTool",
                                     !.toolCalls = @ + 1]]
       ELSE runs' = [runs EXCEPT ![k] =
                       SettleRun([@ EXCEPT !.lpc = "returned"])]
    /\ UNCHANGED <<execVars, qpc, qtask, qreply, sreply, tracker, job, now>>

\* messages.create of run k rejects
RunClientReject(k) ==
    /\ runs[k].lpc = "awaitClient"
    /\ runs' = [runs EXCEPT ![k] = SettleRun([@ EXCEPT !.lpc = "threw"])]
    /\ UNCHANGED <<execVars, qpc, qtask, qreply, sreply, tracker, job, now>>

\* executeTools of run k returns: the two turns are pushed and the next
\* messages.create is issued
RunToolSettle(k) ==
    /\ runs[k].lpc = "awaitTool"
    /\ runs[k].iteration < MAX_ITERATIONS
    /\ runs' = [runs EXCEPT ![k] =
                   [@ EXCEPT !.lpc = "awaitClient",
                             !.iteration = @ + 1,
                             !.completionCalls = @ + 1,
                             !.messages =
                                 @ \o <<AssistantTurn("response.content"),
                                        UserTurn("toolResults")>>]]
    /\ UNCHANGED <<execVars, qpc, qtask, qreply, sreply, tracker, job, now>>

\* The timer of run k fires while its race is open: executeTask rejects
\* with TimeoutError and the loop is left as it is.
RunTimerFire(k) ==
    /\ runs[k].epc = "racing"
    /\ runs' = [runs EXCEPT ![k] =
                   [@ EXCEPT !.epc = "settled", !.kind = "rejected"]]
    /\ UNCHANGED <<execVars, qpc, qtask, qreply, sreply, tracker, job, now>>

NextWorker ==
    \/ AttemptExecuteTask
    \/ \E k \in DOMAIN runs, stop_reason \in {"end_turn", "tool_use"} :
          RunClientRespond(k, stop_reason)
    \/ \E k \in DOMAIN runs : RunClientReject(k)
    \/ \E k \in DOMAIN runs : RunToolSettle(k)
    \/ \E k \in DOMAIN runs : RunTimerFire(k)

\* One job of one worker process over its attempts.
SpecWorker == Init /\ [][NextWorker]_vars

\* ================================================================ claims

\* C1: the statuses stored for a task over the operations of the queue
\* endpoint and of the worker's attempts only move forward along
\* Pending -> InProgress -> {Completed | Failed}; a Completed or Failed
\* record never becomes Pending or InProgress again (nor the other
\* terminal status).
C1_StatusOneDirectional ==
    [][\A t \in TaskIds :
         \/ tracker'[t].status = tracker[t].status
         \/ tracker[t].status = "-" /\ tracker'[t].status = PENDING
         \/ /\ tracker[t].status = PENDING
            /\ tracker'[t].status \in {IN_PROGRESS} \cup TerminalStatuses
         \/ /\ tracker[t].status = IN_PROGRESS
            /\ tracker'[t].status \in TerminalStatuses]_vars

\* C2: markTaskCompleted / markTaskFailed applied by the worker to a
\* record that is already Completed or Failed leaves the record as it is.
C2_TerminalRecordKept ==
    [][\A t \in TaskIds :
         (/\ tracker[t].status \in TerminalStatuses
          /\ job[t].state = "active"
          /\ job[t].wpc \in {"markCompleted", "catch"})
         => tracker'[t] = tracker[t]]_vars

\* C3: every context handed to a tool's execute names the owner of the
\* run (input.userId) as userId and the run's task id as taskId.
C3_ContextBindsOwner ==
    \A i \in 1..Len(toolLog) :
        /\ toolLog[i].ctx.userId = input
        /\ toolLog[i].ctx.taskId = taskId

\* C4: at most one terminal event (complete or error) is written on a
\* connection and no event of any kind is written after it.
C4_OneTerminalEventLast ==
    /\ sse.terminals <= 1
    /\ ~sse.afterTerminal

\* C4 witness: the error event of a timeout was written and the loop, not
\* cancelled, went on to dispatch a tool and to finish afterwards.
C4_Witness ==
    /\ sse.attached
    /\ sse.terminals = 1
    /\ outcome.error = TimeoutError
    /\ toolRounds >= 1
    /\ lpc = "returned"

\* C5: whenever the manager has ended the response, exactly one terminal
\* event had been written on it.
C5_CloseAfterTerminal ==
    sse.ended => sse.terminals = 1

\* C5 witness: a streamed run whose completion call failed was closed by
\* the manager.
C5_Witness ==
    /\ sse.ended
    /\ outcome.kind = "rejected"
    /\ loopErr \in ClientErrors
    /\ sse.errorCode = loopErr.name

\* C6: once the manager is closed (by close() or by a disconnect) a send
\* writes nothing and close() does not end the response again: what the
\* response has received stays as it is, and no step fails.
C6_SendAfterCloseIsNoOp ==
    [][sse.isClosed =>
         /\ sse'.isClosed
         /\ ~sse'.whileClosed
         /\ sse'.ended = sse.ended
         /\ sse'.terminals = sse.terminals
         /\ sse'.lastEvent = sse.lastEvent]_vars

\* C6 witness: the caller disconnected, then the run completed, so that
\* sendComplete and close() were both called on the closed manager.
C6_Witness ==
    /\ sse.remoteGone
    /\ ~sse.ended
    /\ sse.terminals = 0
    /\ outcome.kind = "returned"

\* C7: the loop never issues more than MAX_ITERATIONS completion calls,
\* and it throws its iteration-limit error exactly when MAX_ITERATIONS
\* calls, each followed by a round of tool dispatch, have been made.
C7_IterationBound ==
    /\ completionCalls <= MAX_ITERATIONS
    /\ toolRounds <= completionCalls
    /\ (lpc = "threw" /\ loopErr \notin ClientErrors)
         => (completionCalls = MAX_ITERATIONS /\ toolRounds = MAX_ITERATIONS)
    /\ (toolRounds = MAX_ITERATIONS /\ lpc \notin {"awaitTool", "toolsDone"})
         => (lpc = "threw" /\ loopErr \notin ClientErrors)

\* C7 witness: a run of tool_use responses only failed on the limit.
C7_Witness ==
    /\ lpc = "threw"
    /\ completionCalls = MAX_ITERATIONS
    /\ toolRounds = MAX_ITERATIONS
    /\ outcome.kind = "rejected"
    /\ outcome.error.name = "AgentExecutionError"

\* C8: when executeTask fails because the iteration bound was exhausted,
\* the error it surfaces differs in class name or code from the one it
\* surfaces for a failure of the completion client.
C8_IterationLimitDistinct ==
    (/\ outcome.kind = "rejected"
     /\ Len(outcome.error.message) = 2
     /\ outcome.error.message[2] = "Agent exceeded maximum iterations")
    => \A e \in ClientErrors :
          <<outcome.error.name, outcome.error.code>>
            # <<WrapError(e).name, WrapError(e).code>>

\* C9: executeTask settles once, with a result, with the TimeoutError
\* itself, or with an AgentExecutionError wrapping what was thrown; an
\* error of the completion client never escapes as it was thrown.
C9_SettlesThreeWays ==
    /\ [](epc = "settled" =>
            \/ outcome.kind = "returned"
            \/ /\ outcome.kind = "rejected"
               /\ \/ outcome.error = TimeoutError
                  \/ /\ outcome.error.name = "AgentExecutionError"
                     /\ outcome.error.message[1]
                          = "Agent task execution failed")
    /\ [][epc = "settled" => (epc' = "settled" /\ outcome' = outcome)]_vars

\* C9 witness: a rejection of the completion client was wrapped.
C9_Witness ==
    /\ epc = "settled"
    /\ loopErr \in ClientErrors
    /\ outcome.error = AgentExecutionError(<<"Agent task execution failed">>
                                           \o loopErr.message)

\* C10: a tool whose execute throws yields a tool_result with is_error
\* and the id of that invocation, the later blocks of the response are
\* still dispatched, and the loop goes on to its next iteration: tool
\* dispatch never ends the loop.
C10_ToolThrowAbsorbed ==
    /\ [](/\ \A i \in 1..Len(toolLog) :
               toolLog[i].outcome = "throws" =>
                 \E k \in 1..Len(toolResults) :
                     toolResults[k] = ErrorResult(toolLog[i].id, ToolFailed)
          /\ lpc = "toolsDone" =>
               /\ Len(toolResults) = countToolUses(response)
               /\ Len(toolLog) =
                    Cardinality({i \in 1..Len(response.content) :
                                   response.content[i].name \in allTools}))
    /\ [][/\ lpc = "awaitTool" => lpc' \in {"awaitTool", "toolsDone"}
          /\ (lpc = "toolsDone" /\ iteration < MAX_ITERATIONS)
               => lpc' \in {"toolsDone", "awaitClient"}]_vars

\* C10 witness: the first of two tools threw and the second was still
\* run.
C10_Witness ==
    /\ lpc = "toolsDone"
    /\ Len(toolLog) = 2
    /\ toolLog[1].outcome = "throws"
    /\ toolLog[2].outcome = "ok"
    /\ toolResults[1] = ErrorResult(1, ToolFailed)

\* C11: a tool_use block naming a tool that is not registered invokes no
\* tool, its tool_result (is_error, "not found", the block's id) is among
\* the results pushed to the conversation, and the loop goes on to its
\* next completion call instead of failing.
C11_UnknownToolAbsorbed ==
    /\ [](/\ \A k \in 1..Len(toolLog) :
               response.content[toolLog[k].id].name \in allTools
          /\ lpc = "toolsDone" =>
               \A i \in 1..Len(response.content) :
                   (/\ response.content[i].type = "tool_use"
                    /\ response.content[i].name \notin allTools)
                   => \E k \in 1..Len(toolResults) :
                         toolResults[k] = ErrorResult(BlockId(i), NotFound))
    /\ [][(/\ lpc = "toolsDone"
           /\ lpc' # "toolsDone"
           /\ \E k \in 1..Len(toolResults) :
                 toolResults[k].error = NotFound)
          => /\ messagesNotFound'
             /\ messagesLen' = messagesLen + 2
             /\ iteration < MAX_ITERATIONS => lpc' = "awaitClient"]_vars

\* C11 witness: the run returned a result after its one round of tool
\* dispatch, in which an unregistered tool was requested.
C11_Witness ==
    /\ messagesNotFound
    /\ epc = "settled"
    /\ outcome.kind = "returned"
    /\ toolRounds = 1

\* C12: a run that was started settles, whatever the completion client
\* and the tools do; when the timer fires while the race is still open,
\* executeTask rejects at once with the TimeoutError itself.
C12_TimeoutSettles ==
    /\ (epc = "racing") ~> (epc = "settled")
    /\ [][(epc = "racing" /\ ~timerFired /\ timerFired')
            => (epc' = "settled" /\ outcome'.kind = "rejected"
                /\ outcome'.error = TimeoutError)]_vars

\* C12 witness: the run timed out while a tool had not answered; the
\* tool is still awaited.
C12_Witness ==
    /\ epc = "settled"
    /\ outcome.error = TimeoutError
    /\ lpc = "awaitTool"
    /\ timerFired

C15_InProgressBetweenAttempts ==
    \A t \in TaskIds :
        /\ job[t].state = "delayed" => tracker[t].status = IN_PROGRESS
        /\ job[t].markFailedCalls <= 1
        /\ job[t].markFailedCalls = 1 =>
             job[t].attemptsMade >= QUEUE_MAX_RETRIES

\* C15 (amended): while a job has attempts left its record is not Failed;
\* markTaskFailed is called only by the attempt with attemptsMade >=
\* QUEUE_MAX_RETRIES, at most once per job and exactly once for a job
\* that failed for good.
C15_NoFailedWhileAttemptsRemain ==
    \A t \in TaskIds :
        /\ (\/ job[t].state \in {"waiting", "delayed"}
            \/ job[t].state = "active" /\ job[t].wpc # "-"
               /\ job[t].attemptsMade < QUEUE_MAX_RETRIES)
           => (tracker[t].status # FAILED /\ job[t].markFailedCalls = 0)
        /\ job[t].markFailedCalls <= 1
        /\ job[t].markFailedCalls = 1 =>
             job[t].attemptsMade >= QUEUE_MAX_RETRIES
        /\ job[t].state = "failed" => job[t].markFailedCalls = 1

\* C15 witness: two attempts failed, the third is to come, and the
\* record is still InProgress.
C15_Witness ==
    \E t \in TaskIds :
        /\ job[t].state = "delayed"
        /\ job[t].attemptsMade = 2
        /\ tracker[t].status = IN_PROGRESS
        /\ job[t].markFailedCalls = 0

\* C16: enqueuing again under the task id of a job that is waiting,
\* delayed or active returns that id and leaves the one job as it is:
\* the queue holds one job for the task and no attempt starts while
\* another attempt of it is running.
C16_EnqueueIdempotent ==
    /\ [](\A t \in TaskIds :
            /\ job[t].copies <= 1
            /\ job[t].adds > 0 => job[t].lastId = t
            /\ job[t].state \in {"waiting", "delayed"} => job[t].wpc = "-")
    /\ [][\A t \in TaskIds :
            (job[t].state # "none" /\ job'[t].adds = job[t].adds + 1)
            => job'[t] = [job[t] EXCEPT !.adds = @ + 1]]_vars

\* C16 witness: the second enqueue came while the first attempt was
\* executing.
C16_Witness ==
    \E t \in TaskIds :
        /\ job[t].adds = 2
        /\ job[t].state = "active"
        /\ job[t].wpc = "execute"
        /\ job[t].processed = 1

\* C17: once nothing more will happen to a task (the endpoint has
\* answered, and its job was never added or has completed or failed for
\* good) its record is Completed, or Failed with a recorded error.
C17_NoTaskLeftOpen ==
    \A t \in TaskIds :
        (/\ tracker[t].exists
         /\ qpc = "done"
         /\ job[t].state \in {"none", "completed", "failed"})
        => /\ tracker[t].status \in TerminalStatuses
           /\ tracker[t].status = FAILED =>
                tracker[t].error # NoStoredError

\* C18: when a direct or streamed run has finished, the tracker holds a
\* record under the run's task id whose status is Completed if
\* executeTask returned and Failed if it rejected.
C18_DirectRunTracked ==
    (epc = "settled" /\ cpc = "done") =>
        /\ tracker[taskId].exists
        /\ tracker[taskId].status =
             IF outcome.kind = "returned" THEN COMPLETED ELSE FAILED

\* C19: for a run that failed, the code and message of the error
\* envelope of POST /agent/task, those of the error event written on the
\* stream, and those markTaskFailed stores for the same error are equal.
C19_SameErrorOnAllPaths ==
    (epc = "settled" /\ outcome.kind = "rejected") =>
        LET stored == markTaskFailed(tracker[taskId], outcome.error,
                                     QUEUE_MAX_RETRIES).error
        IN  /\ ~sse.attached =>
                 (reply.code = stored.code /\ reply.message = stored.message)
            /\ (sse.attached /\ sse.terminals = 1) =>
                 (/\ sse.errorCode = stored.code
                  /\ sse.errorMessage = stored.message)

\* C20: a disconnect changes nothing of the run but the manager, and
\* what the run does next (the completion calls it issues, the tools it
\* dispatches, the way executeTask settles) is the same whether or not
\* the caller has gone.
C20_DisconnectLeavesRunAlone ==
    /\ [](LET gone == [LoopState EXCEPT !.sse = handleDisconnect(sse)]
              Run(L) == [[L EXCEPT !.sse = NoSse] EXCEPT !.lpc =
                           <<L.lpc, Settle(L).epc, Settle(L).outcome>>]
          IN  /\ lpc = "awaitClient" =>
                   /\ \A r \in Responses :
                         Run(OnResponse(LoopState, r))
                           = Run(OnResponse(gone, r))
                   /\ \A e \in ClientErrors :
                         Run([LoopState EXCEPT !.lpc = "threw",
                                               !.loopErr = e])
                           = Run([gone EXCEPT !.lpc = "threw",
                                              !.loopErr = e])
              /\ lpc = "awaitTool" =>
                   \A o \in ToolOutcomes :
                       Run(OnToolSettled(LoopState, o))
                         = Run(OnToolSettled(gone, o))
              /\ lpc = "toolsDone" =>
                   Run(NextIteration(PushToolResults(LoopState)))
                     = Run(NextIteration(PushToolResults(gone)))
              /\ epc = "racing" =>
                   SettleRejected(TimeoutError, sse).outcome
                     = SettleRejected(TimeoutError,
                                      handleDisconnect(sse)).outcome)
    /\ [][(~sse.remoteGone /\ sse'.remoteGone) =>
            UNCHANGED <<epc, input, taskId, context, outcome,
                        timerFired, lpc, iteration, response, blockIdx,
                        toolResults, toolLog, messagesLen, messages,
                        messagesNotFound, loopErr, completionCalls,
                        toolRounds>>]_vars

\* C20 witness: the caller left while the first completion call was
\* pending; the run went on through a round of tools and returned.
C20_Witness ==
    /\ sse.remoteGone
    /\ sse.terminals = 0
    /\ sse.lastEvent = "progress"
    /\ toolRounds = 1
    /\ Len(toolLog) = 0
    /\ messagesLen = 3
    /\ epc = "settled"
    /\ outcome.kind = "returned"

\* C21: the ping timer runs exactly while a manager is attached and not
\* closed, whatever the run is doing; a ping is written only by that
\* timer on an open manager, and close() and a disconnect stop it.
C21_PingOnlyWhileOpen ==
    /\ [](/\ sse.pingActive <=> (sse.attached /\ ~sse.isClosed)
          /\ (sse.attached /\ ~sse.isClosed) => ENABLED Ping)
    /\ [][(sse'.lastEvent = "ping" /\ sse.lastEvent # "ping")
            => /\ sse.pingActive
               /\ ~sse.isClosed
               /\ ~sse.remoteGone
               /\ ~sse.ended]_vars

\* C21 witness: a ping was written while the first completion call was
\* pending, then the caller left and the timer was cleared.
C21_Witness ==
    /\ sse.lastEvent = "ping"
    /\ sse.remoteGone
    /\ ~sse.pingActive
    /\ lpc = "awaitClient"
    /\ completionCalls = 1

\* C22: a POST /agent/task whose body fails validation is answered 400
\* and no run of the executor is started for it.
C22_InvalidRequestIs400 ==
    (cpc = "done" /\ epc = "idle" /\ ~sse.attached) =>
        /\ reply.status = 400
        /\ completionCalls = 0
        /\ lpc = "idle"

\* C23: the metadata of a returned run counts the run: iterations is the
\* number of completion calls made, and toolsUsed counts the tools the run
\* invoked, so it is zero when the run never dispatched a tool.
C23_MetadataCountsTheRun ==
    outcome.kind = "returned" =>
        /\ outcome.iterations = completionCalls
        /\ toolRounds = 0 => outcome.toolsUsed = 0

\* C24: a 202 answer of the queue endpoint names a task whose record
\* exists and whose job the queue holds; the job is added in a step that
\* finds the record, created Pending, already stored, so no job and no
\* attempt about to call markTaskProcessing is without its record; and
\* when createTask fails no job is added for that task.
C24_RecordBeforeJob ==
    /\ [](/\ \A t \in TaskIds :
               /\ job[t].state # "none" => tracker[t].exists
               /\ job[t].wpc = "markProcessing" => tracker[t].exists
          /\ qreply.status = 202 =>
               /\ qreply.taskId = qtask
               /\ qreply.taskStatus = PENDING
               /\ tracker[qtask].exists
               /\ job[qtask].state # "none"
          /\ (qpc = "done" /\ qtask # "-" /\ ~tracker[qtask].exists) =>
               /\ job[qtask].state = "none"
               /\ qreply.status = 500)
    /\ [][\A t \in TaskIds :
            (job[t].state = "none" /\ job'[t].state # "none") =>
                /\ tracker[t].exists
                /\ tracker[t].status = PENDING
                /\ tracker'[t] = tracker[t]]_vars

C24_Witness ==
    /\ qreply.status = 202
    /\ job[qtask].wpc = "markProcessing"
    /\ tracker[qtask].status = PENDING

\* C25: every answer of the status endpoint is computed from the record
\* stored at that moment: 404 TASK_NOT_FOUND and no status when there is
\* none, 200 with the stored status when there is one; a status is never
\* reported otherwise.
C25_StatusQuery ==
    [][sreply' # sreply =>
         LET t == sreply'.taskId
         IN  /\ t \in TaskIds
             /\ sreply'.status \in {200, 404, 500}
             /\ sreply'.status = 404 <=>
                  (~tracker[t].exists /\ sreply'.code = "TASK_NOT_FOUND")
             /\ sreply'.status = 200 <=>
                  (tracker[t].exists
                   /\ sreply'.taskStatus = tracker[t].status)
             /\ sreply'.status # 200 => sreply'.taskStatus = "-"
             /\ sreply'.status = 500 => sreply'.code = "STATUS_ERROR"]_vars

C25_Witness ==
    /\ sreply.status = 200
    /\ sreply.taskId = qtask
    /\ sreply.taskStatus = IN_PROGRESS
    /\ tracker[qtask].status = FAILED
    /\ qreply.status = 202

\* C26: createTask applied to a task id that has a record leaves the
\* record as it is (status, result, error, createdAt and the rest).
C26_CreateOnExistingIsNoOp ==
    [][\A t \in TaskIds, u \in UserIds :
         (tracker[t].exists /\ CreateTask(t, u)) =>
             tracker'[t] = tracker[t]]_vars

\* C27: a stored record has a result exactly when its status is Completed
\* and an error exactly when its status is Failed.
C27_ResultIffCompleted ==
    \A t \in TaskIds :
        tracker[t].exists =>
            /\ (tracker[t].result # "-") <=> (tracker[t].status = COMPLETED)
            /\ (tracker[t].error # NoStoredError)
                 <=> (tracker[t].status = FAILED)

\* C28: on a streamed run, complete is written exactly when executeTask
\* returns and error exactly when it throws, and the complete event holds
\* the task id, result and metadata of the returned value.
C28_TerminalEventIffOutcome ==
    (sse.attached /\ epc = "settled") =>
        /\ (sse.completeData # NoCompleteData) <=> (outcome.kind = "returned")
        /\ (sse.errorCode # "-") <=> (outcome.kind = "rejected")
        /\ outcome.kind = "returned" =>
             /\ sse.completeData.taskId = outcome.taskId
             /\ sse.completeData.result = outcome.result
             /\ sse.completeData.metadata.toolsUsed = outcome.toolsUsed
             /\ sse.completeData.metadata.iterations = outcome.iterations

\* C28 (amended): on a streamed run a complete event is written only when
\* executeTask returns, with the task id, result and metadata it returns,
\* and an error event only when it throws; the event is missing only when
\* the caller had disconnected, and a run that has not settled has written
\* neither.
C28_TerminalEventMirrorsOutcome ==
    (sse.attached /\ epc # "idle") =>
        /\ (sse.completeData # NoCompleteData) =>
             /\ outcome.kind = "returned"
             /\ sse.completeData.taskId = outcome.taskId
             /\ sse.completeData.result = outcome.result
             /\ sse.completeData.metadata.toolsUsed = outcome.toolsUsed
             /\ sse.completeData.metadata.iterations = outcome.iterations
        /\ (sse.errorCode # "-") => outcome.kind = "rejected"
        /\ (outcome.kind = "returned" /\ ~sse.remoteGone) =>
             sse.completeData # NoCompleteData
        /\ (outcome.kind = "rejected" /\ ~sse.remoteGone) =>
             sse.errorCode # "-"
        /\ sse.terminals <= 1

C28_Witness ==
    /\ sse.attached
    /\ epc = "settled"
    /\ outcome.kind = "returned"
    /\ Len(outcome.result) = 3
    /\ sse.completeData.result = outcome.result
    /\ toolRounds = 1

\* C29: every message written on the stream has a kind among progress,
\* tool_use, thinking, complete, error and ping (the heartbeat), and the
\* data the caller receives holds a timestamp.
C29_KindAndTimestamp ==
    sse.lastMessage # NoMessage =>
        /\ sse.lastMessage.event \in EventTypes
        /\ "timestamp" \in sse.lastMessage.data

\* C30: the delay before retry k of a job is 1000 ms * 2^(k-1): 1 s, 2 s
\* and 4 s before the three retries; the first delay is 1 s, every later
\* one doubles the one before, and none follows the last attempt.
C30_RetryDelaysDouble ==
    /\ [](\A t \in TaskIds :
            /\ job[t].state = "delayed" =>
                 /\ job[t].attemptsMade \in 1..QUEUE_MAX_RETRIES
                 /\ job[t].delay = <<1000, 2000, 4000>>[job[t].attemptsMade]
            /\ job[t].delay \in {0, 1000, 2000, 4000})
    /\ [][\A t \in TaskIds :
            /\ job'[t].delay # job[t].delay =>
                 /\ job'[t].state = "delayed"
                 /\ job'[t].delay > job[t].delay
                 /\ \/ job[t].delay = 0 /\ job'[t].delay = 1000
                    \/ job'[t].delay = 2 * job[t].delay
            /\ (job[t].state = "active" /\ job'[t].state = "delayed") =>
                 job'[t].delay # job[t].delay]_vars

C30_Witness ==
    \E t \in TaskIds :
        /\ job[t].state = "failed"
        /\ job[t].attemptsMade = JobAttempts
        /\ job[t].processed = JobAttempts
        /\ job[t].delay = 4000

\* C31: a response with stop reason end_turn or max_tokens ends the loop
\* without a tool being dispatched, and executeTask returns with the text
\* segments of that response concatenated in order as its result.
C31_FinalTextConcatenated ==
    (/\ lpc = "returned"
     /\ response.stop_reason \in {"end_turn", "max_tokens"}
     /\ ~timerFired)
    => /\ toolLog = <<>>
       /\ epc = "settled"
       /\ outcome.kind = "returned"
       /\ outcome.result = textsFrom(response.content, 1)

\* C31 (amended): such a response ends the loop without a tool being
\* dispatched, and unless the run had timed out executeTask returns with
\* the text segments of the response in order, a blank line between two
\* of them, or with the fixed sentence when the response has no text.
C31_FinalTextJoined ==
    /\ lpc \in {"awaitTool", "toolsDone"} => response.stop_reason = "tool_use"
    /\ (/\ lpc = "returned"
        /\ response.stop_reason \in {"end_turn", "max_tokens"})
       => /\ toolLog = <<>>
          /\ ~timerFired =>
               LET texts == textsFrom(response.content, 1)
                   n == Len(texts)
                   res == outcome.result
               IN  /\ epc = "settled"
                   /\ outcome.kind = "returned"
                   /\ n = 0 => res = <<NoTextOutput>>
                   /\ n > 0 =>
                        /\ Len(res) = 2 * n - 1
                        /\ \A i \in 1..n : res[2 * i - 1] = texts[i]
                        /\ \A i \in 1..(n - 1) : res[2 * i] = BlankLine

C31_Witness ==
    /\ lpc = "returned"
    /\ response.stop_reason = "max_tokens"
    /\ outcome.kind = "returned"
    /\ Len(outcome.result) = 3
    /\ completionCalls = 2

\* C32: executeTools returns one outcome per tool_use block of the
\* response, the i-th with the id of the i-th requested tool, whether the
\* tools succeed, report an error, throw or are unknown; while a tool is
\* awaited the outcomes so far are those of the blocks before it, in order.
C32_OutcomesInRequestOrder ==
    LET ids(n) == toolUseIds(response.content, 1, n)
        got == [k \in 1..Len(toolResults) |-> toolResults[k].tool_use_id]
    IN  /\ lpc = "toolsDone" =>
             /\ Len(toolResults) = countToolUses(response)
             /\ got = ids(Len(response.content))
        /\ lpc = "awaitTool" =>
             /\ response.content[blockIdx].type = "tool_use"
             /\ got = ids(blockIdx - 1)

C32_Witness ==
    /\ lpc = "toolsDone"
    /\ Len(toolResults) = 2
    /\ toolResults[1].is_error
    /\ toolResults[1].error = ToolFailed
    /\ ~toolResults[2].is_error
    /\ toolResults[2].tool_use_id = 2

\* C33: the conversation starts as the caller's instruction alone and
\* grows only by an assistant turn followed by a user turn of tool
\* results, pushed when executeTools has returned an outcome for every
\* tool the response requested; at every completion call it is
\* [instruction, (assistant response, tool results)*], one pair per
\* earlier call.
C33_ConversationShape ==
    /\ [](/\ Len(messages) = messagesLen
          /\ epc # "idle" =>
               /\ messagesLen >= 1
               /\ messages[1] = UserTurn("input.task")
               /\ \A k \in 2..messagesLen :
                    messages[k] = IF k % 2 = 0
                                  THEN AssistantTurn("response.content")
                                  ELSE UserTurn("toolResults")
          /\ lpc = "awaitClient" => messagesLen = 2 * completionCalls - 1)
    /\ [][(messages' # messages /\ messages # <<>>) =>
            (/\ lpc = "toolsDone"
             /\ Len(toolResults) = countToolUses(response)
             /\ [k \in 1..Len(toolResults) |-> toolResults[k].tool_use_id]
                  = toolUseIds(response.content, 1, Len(response.content))
             /\ messages' = messages
                              \o <<AssistantTurn("response.content"),
                                   UserTurn("toolResults")>>)]_vars
    /\ [][(completionCalls' > completionCalls /\ completionCalls >= 1) =>
            (/\ lpc = "toolsDone"
             /\ Len(messages') = Len(messages) + 2)]_vars

C33_Witness ==
    /\ lpc = "awaitClient"
    /\ completionCalls = 3
    /\ Len(messages) = 5
    /\ messages[5] = UserTurn("toolResults")

\* The kinds of the events an iteration writes to an open stream, given
\* its number, the response received and the tools settled so far: the
\* start event in the first iteration, streamAgentResponse's event per
\* block, and for a tool_use response 'Executing tools...' and one event
\* per tool that resolved.
eventsOfIteration(it, r, log) ==
    (IF it = 1 THEN <<"progress">> ELSE <<>>)
    \o [i \in 1..Len(r.content) |->
           IF r.content[i].type = "text" THEN "thinking" ELSE "tool_use"]
    \o (IF r.stop_reason = "tool_use"
        THEN <<"progress">>
             \o [k \in 1..Len(SelectSeq(log,
                        LAMBDA e : e.outcome \in {"ok", "is_error"}))
                   |-> "tool_use"]
        ELSE <<>>)

\* C34: on a streamed run the events of an iteration are written in loop
\* order: the initial progress event (first iteration), one thinking or
\* tool_use event per block of the response in block order, then, for a
\* response that requests tools, the progress event and one event per
\* tool result in request order; nothing is written once the manager is
\* closed, and the terminal event closes it after all of them.
C34_EventsInLoopOrder ==
    /\ []((sse.attached /\ ~sse.isClosed /\ epc # "idle") =>
            sse.events = eventsOfIteration(iteration, response, toolLog))
    /\ [][(sse.isClosed /\ lpc' = lpc /\ iteration' = iteration) =>
            sse'.events = sse.events]_vars
    /\ [][(sse.attached /\ ~sse.isClosed /\ sse'.isClosed
            /\ epc' # "idle") =>
            \/ sse'.events = sse.events /\ sse'.remoteGone
            \/ /\ Len(sse'.events) >= 1
               /\ sse'.events[Len(sse'.events)] \in TerminalEvents
               /\ SubSeq(sse'.events, 1, Len(sse'.events) - 1)
                    = eventsOfIteration(iteration', response', toolLog')
               /\ sse'.terminals = 1]_vars

C34_Witness ==
    /\ sse.attached
    /\ ~sse.remoteGone
    /\ iteration = 2
    /\ sse.events = <<"thinking", "tool_use", "progress", "tool_use">>
    /\ lpc = "toolsDone"

\* C35: within an attempt the progress markers are stored in the order
\* starting (0), executing (25), finalizing (75), completed (100), each
\* right after the one before it and with a larger percentage; executing
\* only once markTaskProcessing has succeeded, finalizing only once the
\* executor has returned, completed only once markTaskCompleted has
\* succeeded.
C35_ProgressMarkersInOrder ==
    [][\A t \in TaskIds :
         job'[t].progress # job[t].progress =>
            LET old == job[t].progress
                new == job'[t].progress
            IN  /\ job[t].state = "active"
                /\ new.status = job[t].wpc
                /\ new.status = "starting" => new.progress = 0
                /\ new.status # "starting" =>
                     /\ new.progress > old.progress
                     /\ <<old.status, new.status>> \in
                          { <<"starting", "executing">>,
                            <<"executing", "finalizing">>,
                            <<"finalizing", "completed">> }
                /\ new.status = "executing" =>
                     (new.progress = 25 /\ tracker[t].status = IN_PROGRESS)
                /\ new.status = "finalizing" =>
                     (new.progress = 75 /\ job[t].result.kind = "returned")
                /\ new.status = "completed" =>
                     (new.progress = 100 /\ tracker[t].status = COMPLETED)]_vars

C35_Witness ==
    \E t \in TaskIds :
        /\ job[t].state = "completed"
        /\ job[t].progress = [status |-> "completed", progress |-> 100]
        /\ job[t].processed = 2

\* C39: a queued task has one identifier end to end: the job id the
\* endpoint reports is the task id of the tracker record, and the task id
\* in the result of the job's run is that task id too.
C39_OneIdentifier ==
    /\ qreply.status = 202 =>
         /\ qreply.jobId = qreply.taskId
         /\ tracker[qreply.taskId].exists
    /\ \A t \in TaskIds :
         /\ job[t].state # "none" => job[t].lastId = t
         /\ job[t].result.kind = "returned" => job[t].result.taskId = t

\* C37: once executeTask has settled, the loop of that run issues no
\* further completion call and dispatches no further tool.
C37_NoActivityAfterSettle ==
    [][epc = "settled" =>
         /\ completionCalls' = completionCalls
         /\ toolRounds' = toolRounds
         /\ Len(toolLog') <= Len(toolLog)]_vars

\* C36: the run an attempt starts is a fresh one: its conversation holds
\* the instruction alone and its counters start anew, whatever the run of
\* the failed attempt holds, and it leaves the earlier runs as they are.
C36_RetryFromScratch ==
    [][Len(runs') = Len(runs) + 1 =>
         LET new == runs'[Len(runs')]
         IN  /\ new.messages = <<UserTurn("input.task")>>
             /\ new.iteration = 1
             /\ new.completionCalls = 1
             /\ new.toolCalls = 0
             /\ new.epc = "racing"
             /\ new.attempt = Len(runs) + 1
             /\ \A k \in DOMAIN runs : runs'[k] = runs[k]]_vars

C36_Witness ==
    /\ Len(runs) = 2
    /\ runs[1].kind = "rejected"
    /\ Len(runs[1].messages) = 3
    /\ runs[1].toolCalls = 1
    /\ runs[2].messages = <<UserTurn("input.task")>>
    /\ runs[2].lpc = "awaitClient"

\* C38: the loops of one worker process that can still issue a completion
\* call or a tool call are never more than QUEUE_CONCURRENCY.
C38_LoopsWithinConcurrency ==
    Cardinality(LiveLoops(runs)) <= QUEUE_CONCURRENCY

====
